---- MODULE Spec2Model ----
(***************************************************************************)
(* A model of chatbotpyopenai.py: ChatManager, Context and the retry loop  *)
(* of ChatCompletionApi.get_response.  The completion service and the      *)
(* tokenizer (tiktoken) are external; the service answers every request    *)
(* with one of the HTTP outcomes the code distinguishes, and the tokenizer *)
(* is a fixed table over the finite universe of message contents.          *)
(***************************************************************************)
EXTENDS Integers, Sequences, FiniteSets, TLC

VARIABLES
    personality,    \* the Personality the ChatManager was constructed with
    context_list,   \* Context.context_list
    history,        \* ChatManager.history
    pc,             \* where the single thread of control is
    prompt,         \* the prompt argument of the submit_prompt in progress
    request,        \* the `messages` payload of the request in flight
    posts,          \* requests.post calls made by the get_response in progress
    status_code,    \* response.status_code of the last response (0: none yet)
    outcome,        \* how the last call on the manager ended
    result,         \* what the last submit_prompt returned
    errors,         \* non-retryable failures the service has reported so far
    bigs,           \* prompts other than "small" submitted so far
    rounds,         \* prune_context calls of the prepare in progress (saturating)
    sent,           \* normal-turn get_response calls of the last submit_prompt
    ctx0,           \* context_list when the last call on the manager began
    hist0,          \* history when the last call on the manager began
    prune0          \* context_list when the last prune_context began

vars == <<personality, context_list, history, pc, prompt, request, posts,
          status_code, outcome, result, errors, bigs, rounds, sent, ctx0, hist0,
          prune0>>

-----------------------------------------------------------------------------
(* Program constants *)

API_TOKEN_LIMIT == 4096
MAX_TOKENS == 800
SUMMARY_PROMPT == "Summarize this conversation so far."

(* Bounds of the model *)

\* submit_prompt is not called on a longer history
MaxHistory == 21
\* rate-limit answers to one get_response
MaxPosts == 2
\* non-retryable failures the service reports in a run
MaxErrors == 1
\* prompts other than "small" the caller submits in a run
MaxBig == 1
\* where the observation counter `rounds` saturates
MaxRounds == 3

-----------------------------------------------------------------------------
(* Python values *)

None == [none |-> TRUE]

Min(a, b) == IF a < b THEN a ELSE b

\* del l[i:j], 0-based, for 0 <= i <= j
DelSlice(l, i, j) ==
    LET lo == Min(i, Len(l))
        hi == Min(j, Len(l))
    IN  SubSeq(l, 1, lo) \o SubSeq(l, hi + 1, Len(l))

\* l.insert(i, x), 0-based, for i >= 0
Insert(l, i, x) ==
    LET at == Min(i, Len(l))
    IN  SubSeq(l, 1, at) \o <<x>> \o SubSeq(l, at + 1, Len(l))

RECURSIVE Sum(_)
Sum(s) == IF s = <<>> THEN 0 ELSE Head(s) + Sum(Tail(s))

-----------------------------------------------------------------------------
(* The universe of texts and the tokenizer *)

UserPrompts == {"small", "big", "huge"}
Summaries == {"brief", "long"}
Replies == {"reply"}

\* len(encoding.encode(json)) of the message with this content.  A completion
\* is at most MAX_TOKENS tokens of text, so a summary message (its JSON wrapper
\* included) can cost slightly more than MAX_TOKENS; "huge" alone exceeds the
\* budget, "big" fits only beside a short tail.
tiktoken(content) ==
    CASE content = "You are a helpful assistant." -> 17
      [] content = "custom personality" -> 40
      [] content = SUMMARY_PROMPT -> 17
      [] content = "small" -> 50
      [] content = "big" -> 2850
      [] content = "huge" -> 3400
      [] content = "brief" -> 60
      [] content = "long" -> 810
      [] content = "reply" -> 100

-----------------------------------------------------------------------------
(* class ChatMessage *)

ChatMessage(role, content) ==
    [role |-> role, content |-> content, tokenlen |-> tiktoken(content)]

to_dict(m) == [role |-> m.role, content |-> m.content]

get_tokenlen(m) == tiktoken(to_dict(m).content)

(* class Personality *)

get_personality_prompt(p) == ChatMessage("system", p.system_prompt)

Personalities ==
    { [name |-> "Helpful", system_prompt |-> "You are a helpful assistant."],
      [name |-> "Custom", system_prompt |-> "custom personality"] }

-----------------------------------------------------------------------------
(* class Context *)

summary_message == ChatMessage("user", SUMMARY_PROMPT)

HasNone(l) == \E i \in 1..Len(l) : l[i] = None

\* defined when no element of l is None; the code raises AttributeError otherwise
get_context_tokenlen(l) == Sum([i \in 1..Len(l) |-> get_tokenlen(l[i])])

\* the while test without the prompt's tokens
OverBudget_NoPrompt(l, p) ==
    get_context_tokenlen(l) + MAX_TOKENS + get_tokenlen(summary_message)
        > API_TOKEN_LIMIT

\* the while test without the summary request's tokens
OverBudget_NoSummary(l, p) ==
    get_context_tokenlen(l) + get_tokenlen(p) + MAX_TOKENS > API_TOKEN_LIMIT

OverBudget(l, p) ==
    get_context_tokenlen(l) + get_tokenlen(p) + MAX_TOKENS
        + get_tokenlen(summary_message) > API_TOKEN_LIMIT

Project(l) == [i \in 1..Len(l) |-> to_dict(l[i])]

\* a summarization call that sends the list itself, as a normal turn does
summary_request_AsTurn(l) == [json |-> FALSE, messages |-> Project(l)]

\* the payload summarize_context hands to get_response: json.dumps of the list
summary_request(l) ==
    [json |-> TRUE, messages |-> Project(Append(l, summary_message))]

\* the prepared list without the pinned message
prepared_context_TailOnly(l) ==
    [json |-> FALSE, messages |-> Project(SubSeq(l, 2, Len(l)))]

\* the payload submit_prompt hands to get_response: the list itself
prepared_context(l) == [json |-> FALSE, messages |-> Project(l)]

NoRequest == [json |-> FALSE, messages |-> <<>>]

\* the splice with the summary inserted at index 0
Splice_AtFront(l, context_summary) ==
    Insert(DelSlice(l, 1, 9), 0, context_summary)

\* the splice deleting [1:8]
Splice_Seven(l, context_summary) ==
    Insert(DelSlice(l, 1, 8), 1, context_summary)

\* the splice with the summary put after the remaining entries
Splice_SummaryLast(l, context_summary) ==
    Append(DelSlice(l, 1, 9), context_summary)

\* lines 144-145 of prune_context
Splice(l, context_summary) == Insert(DelSlice(l, 1, 9), 1, context_summary)

\* the reset deleting [2:]
reset_context_FromTwo(l) == DelSlice(l, 2, Len(l))

reset_context(l) == DelSlice(l, 1, Len(l))

-----------------------------------------------------------------------------
(* Initial state: ChatManager(personality) *)

Init ==
    /\ personality \in Personalities
    /\ context_list = <<get_personality_prompt(personality)>>
    /\ history = <<get_personality_prompt(personality)>>
    /\ pc = "idle"
    /\ prompt = None
    /\ request = NoRequest
    /\ posts = 0
    /\ status_code = 0
    /\ outcome = "constructed"
    /\ result = None
    /\ errors = 0
    /\ bigs = 0
    /\ rounds = 0
    /\ sent = 0
    /\ ctx0 = context_list
    /\ hist0 = history
    /\ prune0 = context_list

-----------------------------------------------------------------------------
(* ChatManager.submit_prompt: entry *)

submit_prompt(content) ==
    /\ pc = "idle"
    /\ Len(history) + 2 <= MaxHistory
    /\ bigs' = IF content = "small" THEN bigs ELSE bigs + 1
    /\ bigs' <= MaxBig
    /\ prompt' = ChatMessage("user", content)
    /\ pc' = "prepare"
    /\ outcome' = "running"
    /\ result' = None
    /\ rounds' = 0
    /\ sent' = 0
    /\ ctx0' = context_list
    /\ hist0' = history
    /\ prune0' = context_list
    /\ UNCHANGED <<personality, context_list, history, request, posts,
                   status_code, errors>>

(* Context.get_prepared_context: the while test raises on a None element *)
PrepareRaise ==
    /\ pc = "prepare"
    /\ HasNone(context_list)
    /\ pc' = "idle"
    /\ outcome' = "raised"
    /\ prompt' = None
    /\ UNCHANGED <<personality, context_list, history, request, posts,
                   status_code, result, errors, bigs, rounds, sent, ctx0, hist0,
                   prune0>>

\* a prune round that deletes the oldest entries before asking for the summary
PreparePrune_DeleteFirst ==
    /\ pc = "prepare"
    /\ ~HasNone(context_list)
    /\ OverBudget(context_list, prompt)
    /\ request' = summary_request(context_list)
    /\ context_list' = DelSlice(context_list, 1, 9)
    /\ posts' = 1
    /\ status_code' = 0
    /\ prune0' = context_list
    /\ rounds' = Min(rounds + 1, MaxRounds)
    /\ pc' = "summarize"
    /\ UNCHANGED <<personality, history, prompt, outcome, result, errors, bigs,
                   sent, ctx0, hist0>>

(* the while test is true: prune_context -> summarize_context -> get_response *)
PreparePrune ==
    /\ pc = "prepare"
    /\ ~HasNone(context_list)
    /\ OverBudget(context_list, prompt)
    /\ request' = summary_request(context_list)
    /\ posts' = 1
    /\ status_code' = 0
    /\ prune0' = context_list
    /\ rounds' = Min(rounds + 1, MaxRounds)
    /\ pc' = "summarize"
    /\ UNCHANGED <<personality, context_list, history, prompt, outcome, result,
                   errors, bigs, sent, ctx0, hist0>>

(* the while test is false: append, return; submit_prompt calls get_response *)
PrepareReturn ==
    /\ pc = "prepare"
    /\ ~HasNone(context_list)
    /\ ~OverBudget(context_list, prompt)
    /\ context_list' = Append(context_list, prompt)
    /\ request' = prepared_context(context_list')
    /\ posts' = 1
    /\ status_code' = 0
    /\ sent' = sent + 1
    /\ pc' = "respond"
    /\ UNCHANGED <<personality, history, prompt, outcome, result, errors,
                   bigs, rounds, ctx0, hist0, prune0>>

\* status 429 of a normal-turn request handled like any other failure status
RateLimited_GivesUp ==
    /\ pc = "respond"
    /\ posts < MaxPosts
    /\ status_code' = 429
    /\ history' = Append(Append(history, prompt), None)
    /\ result' = None
    /\ outcome' = "returned"
    /\ request' = NoRequest
    /\ posts' = 0
    /\ prompt' = None
    /\ pc' = "idle"
    /\ UNCHANGED <<personality, context_list, errors, bigs, rounds, sent, ctx0,
                   hist0, prune0>>

(* ChatCompletionApi.get_response: status 429, sleep and post again.  The    *)
(* isinstance branch of lines 50-53 cannot run: str.strip() returns a str.  *)
RateLimited ==
    /\ pc \in {"summarize", "respond"}
    /\ posts < MaxPosts
    /\ posts' = posts + 1
    /\ status_code' = 429
    /\ UNCHANGED <<personality, context_list, history, pc, prompt, request,
                   outcome, result, errors, bigs, rounds, sent, ctx0, hist0,
                   prune0>>

\* a status that is neither 200 nor 429
ErrorStatus == {500}

\* what get_response(message_list, role) returns on status 200
Completion(role, text) == ChatMessage(role, text)

(* summarize_context returns to prune_context, which splices and returns to the loop *)
SummaryReturned(status, context_summary) ==
    /\ pc = "summarize"
    /\ status_code' = status
    /\ context_list' = Splice(context_list, context_summary)
    /\ request' = NoRequest
    /\ posts' = 0
    /\ pc' = "prepare"
    /\ UNCHANGED <<personality, history, prompt, outcome, result, bigs, rounds,
                   sent, ctx0, hist0, prune0>>

SummaryOk ==
    /\ \E text \in Summaries : SummaryReturned(200, Completion("user", text))
    /\ UNCHANGED errors

SummaryFailed ==
    /\ errors < MaxErrors
    /\ errors' = errors + 1
    /\ \E status \in ErrorStatus : SummaryReturned(status, None)

\* update_history appending the response alone
update_history_ResponseOnly(h, p, response) == Append(h, response)

\* update_history appending the response before the prompt
update_history_Swapped(h, p, response) == Append(Append(h, response), p)

(* ChatManager.update_history *)
update_history(h, p, response) == Append(Append(h, p), response)

(* get_response returns to submit_prompt, which updates history and returns *)
ResponseReturned(status, response) ==
    /\ pc = "respond"
    /\ status_code' = status
    /\ history' = update_history(history, prompt, response)
    /\ result' = response
    /\ outcome' = "returned"
    /\ request' = NoRequest
    /\ posts' = 0
    /\ prompt' = None
    /\ pc' = "idle"
    /\ ctx0' = context_list
    /\ prune0' = context_list
    /\ UNCHANGED <<personality, context_list, bigs, rounds, sent, hist0>>

ResponseOk ==
    /\ \E text \in Replies : ResponseReturned(200, Completion("assistant", text))
    /\ UNCHANGED errors

ResponseFailed ==
    /\ errors < MaxErrors
    /\ errors' = errors + 1
    /\ \E status \in ErrorStatus : ResponseReturned(status, None)

\* a reset_chat that resets the context and leaves history alone
reset_chat_ContextOnly ==
    /\ pc = "idle"
    /\ context_list' = reset_context(context_list)
    /\ outcome' = "reset"
    /\ result' = None
    /\ rounds' = 0
    /\ sent' = 0
    /\ ctx0' = context_list
    /\ hist0' = history
    /\ prune0' = context_list'
    /\ UNCHANGED <<personality, history, pc, prompt, request, posts,
                   status_code, errors, bigs>>

(* ChatManager.reset_chat *)
reset_chat ==
    /\ pc = "idle"
    /\ context_list' = reset_context(context_list)
    /\ history' = DelSlice(history, 1, Len(history))
    /\ outcome' = "reset"
    /\ result' = None
    /\ rounds' = 0
    /\ sent' = 0
    /\ ctx0' = context_list
    /\ hist0' = history
    /\ prune0' = context_list'
    /\ UNCHANGED <<personality, pc, prompt, request, posts, status_code,
                   errors, bigs>>

Next ==
    \/ \E content \in UserPrompts : submit_prompt(content)
    \/ PrepareRaise
    \/ PreparePrune
    \/ PrepareReturn
    \/ RateLimited
    \/ SummaryOk
    \/ SummaryFailed
    \/ ResponseOk
    \/ ResponseFailed
    \/ reset_chat

Spec == Init /\ [][Next]_vars

\* the scheduling of the single thread: a step of the code that can run does
\* run, and the service answers every request
FairSpec ==
    /\ Spec
    /\ WF_vars(PrepareRaise \/ PreparePrune \/ PrepareReturn)
    /\ WF_vars(SummaryOk \/ SummaryFailed \/ ResponseOk \/ ResponseFailed)

-----------------------------------------------------------------------------
(* Vocabulary of the properties *)

pinned == get_personality_prompt(personality)

tail(l) == SubSeq(l, 2, Len(l))

\* tokens of a payload handed to the completion service
RequestTokens(r) ==
    Sum([i \in 1..Len(r.messages) |-> tiktoken(r.messages[i].content)])

\* get_prepared_context has returned and nothing has touched the context since
PrepareReturned == pc = "respond" \/ (pc = "idle" /\ outcome = "returned")

\* a prune_context round has just ended, its summary call answered with `status`
PruneEnded(status) == pc = "prepare" /\ rounds > 0 /\ status_code = status

-----------------------------------------------------------------------------
\* C1: after any get_prepared_context that returns, the context (pinned and
\* tail, the prompt included) plus MAX_TOKENS plus the summary request's
\* tokens is at most API_TOKEN_LIMIT.
C1_BudgetAfterPrepare ==
    PrepareReturned =>
        get_context_tokenlen(context_list) + MAX_TOKENS
            + get_tokenlen(summary_message) <= API_TOKEN_LIMIT

\* a prepare that returned after two prune rounds
C1_Witness == pc = "respond" /\ rounds >= 2

\* C2: every payload handed to the completion service, the prepared list and
\* every summarization snapshot alike, totals at most API_TOKEN_LIMIT tokens
\* together with MAX_TOKENS.
C2_EveryRequestWithinCeiling ==
    pc \in {"summarize", "respond"} =>
        RequestTokens(request) + MAX_TOKENS <= API_TOKEN_LIMIT

\* C3: when the summary call of a prune round fails, the context list after
\* the round is the context list before it.
C3_FailedPruneLeavesContext ==
    (\E status \in ErrorStatus : PruneEnded(status)) => context_list = prune0

\* C4: a submit whose summarization call failed (the code then leaves None in
\* the context list) returns a failure indicator instead of raising, leaves
\* history as it was, and leaves the manager able to serve a later submit (no
\* submit starts on a context it must raise on).
C4_SummaryFailureIsReturned ==
    /\ (pc = "idle" /\ outcome \in {"returned", "raised"} /\ rounds > 0
            /\ status_code \in ErrorStatus /\ HasNone(context_list))
        => (outcome = "returned" /\ result = None /\ history = hist0)
    /\ (pc = "prepare" /\ rounds = 0) => ~HasNone(context_list)

\* C5: a normal turn with no pruning whose request fails yields no response
\* and leaves history as it was before the submit.
C5_FailedTurnLeavesHistory ==
    (pc = "idle" /\ outcome = "returned" /\ rounds = 0
        /\ status_code \in ErrorStatus)
        => (result = None /\ history = hist0)

\* C6: every get_prepared_context eventually finishes, by returning or by
\* reporting a failure, when every call to the service returns.
C6_PrepareTerminates == (pc = "prepare") ~> (pc \in {"respond", "idle"})

\* C7: the first element of the context list is always the pinned system
\* message built from the personality at construction.
C7_PinnedFirst ==
    /\ Len(context_list) >= 1
    /\ context_list[1] = ChatMessage("system", personality.system_prompt)

\* a prune round and a later prepare have acted on the context
C7_Witness == Len(context_list) >= 3 /\ rounds >= 1 /\ pc = "respond"

\* C8 as stated: a successful prune round on any non-empty tail leaves the
\* tail strictly shorter.
C8_PruneShrinksAnyTail ==
    (PruneEnded(200) /\ Len(tail(prune0)) >= 1)
        => Len(tail(context_list)) < Len(tail(prune0))

\* C8 as amended: a successful prune round on a tail of n >= 1 entries leaves
\* n - min(8, n) + 1 entries, which is fewer than n exactly when n >= 2; a
\* tail of one entry keeps its length.
C8_PruneShrinksLongerTail ==
    (PruneEnded(200) /\ Len(tail(prune0)) >= 1) =>
        LET n == Len(tail(prune0))
            m == Len(tail(context_list))
        IN  /\ m = n - Min(8, n) + 1
            /\ n >= 2 => m < n
            /\ n = 1 => m = 1

\* a successful round on a tail of more than eight entries
C8_Witness == PruneEnded(200) /\ Len(tail(prune0)) >= 9

\* C9: get_prepared_context never starts a prune round on an empty tail, and
\* a prune round on an empty tail leaves the tail empty.
C9_NoPruneOfEmptyTail ==
    /\ pc = "summarize" => Len(tail(context_list)) >= 1
    /\ (pc = "prepare" /\ rounds > 0 /\ Len(tail(prune0)) = 0)
        => Len(tail(context_list)) = 0

\* C10: after reset_context the tail is empty, the context's token total is
\* the pinned message's, and a further reset changes nothing.
C10_Reset ==
    outcome = "reset" =>
        /\ tail(context_list) = <<>>
        /\ context_list = <<ctx0[1]>>
        /\ get_context_tokenlen(context_list) = get_tokenlen(pinned)
        /\ reset_context(context_list) = context_list

\* a reset of a context that held a pruned tail
C10_Witness == outcome = "reset" /\ Len(ctx0) >= 3 /\ ctx0[2].content \in Summaries

-----------------------------------------------------------------------------
(* Further vocabulary *)

Range(l) == {l[i] : i \in 1..Len(l)}

IsPrefix(a, b) == Len(a) <= Len(b) /\ SubSeq(b, 1, Len(a)) = a

Last(l) == l[Len(l)]

Front(l) == SubSeq(l, 1, Len(l) - 1)

\* an entry that entered the context as a submitted prompt
IsPrompt(m) == m # None /\ m.role = "user" /\ m.content \in UserPrompts

\* an entry that a successful summarization call returned
IsSummary(m) == m # None /\ m.role = "user" /\ m.content \in Summaries

\* no call on the manager is in progress and the last submit, if any, returned
Quiet == pc = "idle" /\ outcome # "raised"

-----------------------------------------------------------------------------
-----------------------------------------------------------------------------
\* a get_response call is in progress
Pending == pc \in {"summarize", "respond"}

\* what the get_response call that ended in this step returned to its caller
Returned == IF pc = "respond" THEN result' ELSE context_list'[2]

-----------------------------------------------------------------------------
\* C13: while a get_response call is pending, every retry of a rate-limited
\* summarization call included, the context list and history do not change;
\* the splice happens only in the step in which the call returns.
C13_NoMutationWhilePending ==
    /\ [](/\ pc = "summarize" => (context_list = prune0 /\ history = hist0)
          /\ pc = "respond" =>
                (Project(context_list) = request.messages /\ history = hist0))
    /\ [][/\ (Pending /\ pc' = pc) =>
                (context_list' = context_list /\ history' = history)
          /\ (pc = "summarize" /\ context_list' # context_list) =>
                (pc' = "prepare" /\ status_code' # 429)]_vars

\* a summarization call on a non-empty tail being retried after a rate limit
C13_Witness ==
    pc = "summarize" /\ status_code = 429 /\ Len(tail(context_list)) >= 1

-----------------------------------------------------------------------------
\* C14: after reset_chat history is exactly the one-element sequence holding
\* the pinned message, the context tail is empty, and the pinned message of
\* both lists is the one they held before, the personality's.
C14_ResetChat ==
    outcome = "reset" =>
        /\ history = <<pinned>>
        /\ context_list = <<pinned>>
        /\ history[1] = hist0[1]
        /\ context_list[1] = ctx0[1]

\* a reset of a manager whose history logged a failed turn and whose context
\* held a tail
C14_Witness ==
    /\ outcome = "reset"
    /\ Len(hist0) >= 5
    /\ None \in Range(hist0)
    /\ Len(ctx0) >= 2

-----------------------------------------------------------------------------
\* C15: a successful prune round on a tail of n entries sends the snapshot
\* [pinned] + tail + [summary request], in that order, and then sets the tail
\* to the returned summary followed by the old tail without its first
\* min(8, n) entries, in order; the pinned message stays as it was.
C15_PruneRound ==
    /\ pc = "summarize" =>
          request.messages =
              <<to_dict(prune0[1])>> \o Project(tail(prune0))
                  \o <<[role |-> "user", content |-> SUMMARY_PROMPT]>>
    /\ PruneEnded(200) =>
          LET n == Len(tail(prune0))
              summary == context_list[2]
          IN  /\ IsSummary(summary)
              /\ context_list[1] = prune0[1]
              /\ tail(context_list) =
                    <<summary>> \o SubSeq(tail(prune0), Min(8, n) + 1, n)

\* a successful round on a tail of nine entries, the ninth kept behind the summary
C15_Witness ==
    /\ PruneEnded(200)
    /\ Len(tail(prune0)) = 9
    /\ tail(context_list) = <<context_list[2], prune0[10]>>

-----------------------------------------------------------------------------
\* total(prompt) of a context without None: tokens(pinned) + tokens(tail) +
\* tokens(prompt) + reserved response tokens + tokens(summary request)
total(l, p) ==
    Sum([i \in 1..Len(l) |-> tiktoken(l[i].content)]) + tiktoken(p.content)
        + MAX_TOKENS + tiktoken(SUMMARY_PROMPT)

\* a submit_prompt is between its entry and the return of its get_response
InSubmit == pc \in {"prepare", "summarize", "respond"}

\* C16: when total(prompt) is within API_TOKEN_LIMIT at the call of
\* get_prepared_context, the call makes no prune round and no service call,
\* appends the prompt as the last entry leaving the earlier ones as they
\* were, and returns the role/content projection of [pinned] + tail in order
\* (two entries for an empty tail).
C16_WithinBudgetPrepare ==
    (InSubmit /\ ~HasNone(ctx0) /\ total(ctx0, prompt) <= API_TOKEN_LIMIT) =>
        /\ rounds = 0
        /\ pc # "summarize"
        /\ pc = "prepare" => context_list = ctx0
        /\ pc = "respond" =>
              /\ context_list = Append(ctx0, prompt)
              /\ request.messages = Project(ctx0) \o <<to_dict(prompt)>>
              /\ request.messages[1] = to_dict(pinned)
              /\ Len(tail(ctx0)) = 0 => Len(request.messages) = 2

\* the first prompt of a conversation prepared without pruning
C16_Witness ==
    /\ pc = "respond"
    /\ rounds = 0
    /\ Len(ctx0) = 1
    /\ Len(request.messages) = 2

-----------------------------------------------------------------------------
\* C17: get_prepared_context runs a prune round exactly when the over-budget
\* test is true and appends the prompt only when it is false, after the last
\* round; in particular, started over budget on a tail of at least eight
\* entries with one round sufficing, it runs exactly one round and finishes
\* with tail = [summary] + (old tail without its oldest eight) + [prompt].
C17_PruneLoop ==
    /\ pc = "summarize" =>
          (total(prune0, prompt) > API_TOKEN_LIMIT /\ context_list = prune0)
    /\ PruneEnded(200) =>
          Len(tail(context_list)) =
              Len(tail(prune0)) - Min(8, Len(tail(prune0))) + 1
    /\ pc = "respond" =>
          /\ Last(context_list) = prompt
          /\ total(Front(context_list), prompt) <= API_TOKEN_LIMIT
          /\ (rounds = 0) = (total(ctx0, prompt) <= API_TOKEN_LIMIT)
          /\ rounds = 1 => Front(context_list) = Splice(ctx0, context_list[2])
          /\ (rounds = 1 /\ Len(tail(ctx0)) >= 8) =>
                /\ IsSummary(context_list[2])
                /\ tail(context_list) =
                      <<context_list[2]>>
                          \o SubSeq(tail(ctx0), 9, Len(tail(ctx0)))
                          \o <<prompt>>

\* a prepare that ran exactly one round on a tail of nine entries and returned
C17_Witness == pc = "respond" /\ rounds = 1 /\ Len(tail(ctx0)) >= 9

-----------------------------------------------------------------------------
\* C18: a request is in flight only inside a get_response call, one at a
\* time; while a submit is still preparing, summarization calls included, its
\* normal-turn request has not been sent; once prepare has returned it is the
\* request in flight and has been sent exactly once.
C18_OneRequestInOrder ==
    /\ (request # NoRequest) = Pending
    /\ pc = "prepare" => sent = 0
    /\ pc = "summarize" =>
          /\ sent = 0
          /\ request.json
          /\ Last(request.messages).content = SUMMARY_PROMPT
    /\ pc = "respond" =>
          /\ sent = 1
          /\ ~request.json
          /\ request.messages = Project(context_list)
    /\ (pc = "idle" /\ outcome = "returned") => sent = 1
    /\ (pc = "idle" /\ outcome = "raised") => sent = 0

\* the normal-turn request in flight after two summarization calls returned
C18_Witness == pc = "respond" /\ rounds >= 2 /\ sent = 1 /\ request # NoRequest

-----------------------------------------------------------------------------
\* C19: a submit whose completion call succeeds extends history by exactly
\* the prompt followed by the response, which has role assistant and is what
\* the submit returns; the earlier entries stay as they were, and history does
\* not change while the submit prepares and prunes.
C19_SuccessfulSubmit ==
    /\ InSubmit => history = hist0
    /\ (pc = "idle" /\ outcome = "returned" /\ status_code = 200) =>
          /\ result # None
          /\ result.role = "assistant"
          /\ IsPrompt(Last(context_list))
          /\ history = hist0 \o <<Last(context_list), result>>

\* a successful submit that pruned on the way
C19_Witness ==
    /\ pc = "idle"
    /\ outcome = "returned"
    /\ status_code = 200
    /\ rounds >= 1
    /\ Len(history) = Len(hist0) + 2

-----------------------------------------------------------------------------
\* C20: the reply to a normal turn never enters the context: the context tail
\* holds only submitted prompts and compaction summaries, the response of a
\* submit leaves the context as prepare left it, and a successful submit
\* without pruning grows the tail by one entry and history by two.
C20_TailHoldsPromptsAndSummaries ==
    /\ \A i \in 2..Len(context_list) :
          IsPrompt(context_list[i]) \/ IsSummary(context_list[i])
    /\ (pc = "respond" /\ rounds = 0) =>
          Len(tail(context_list)) = Len(tail(ctx0)) + 1
    /\ (pc = "idle" /\ outcome = "returned") => context_list = ctx0
    /\ (pc = "idle" /\ outcome = "returned" /\ status_code = 200) =>
          Len(history) = Len(hist0) + 2

====
